---- MODULE Spec2Model ----
(***************************************************************************)
(* A model of the chunk-stream decoder of pngcheck (src/src/decoder.rs).  *)
(*                                                                         *)
(* The state is the Decoder (its Buffer: the bytes and the read position,  *)
(* and its chunk list) together with the position of `decode` in its own   *)
(* body.  Bytes are the real byte values 0..255, tags are the real ASCII   *)
(* tags, lengths and checksums are big-endian 32-bit values.               *)
(*                                                                         *)
(* 32-bit values are held as two 16-bit limbs <<hi, lo>> (value            *)
(* hi * 65536 + lo), so that every u32 the decoder can read from arbitrary *)
(* bytes is representable.                                                 *)
(***************************************************************************)
EXTENDS Integers, Sequences, FiniteSets, TLC

VARIABLES
    buffer,   \* Decoder.buffer: [bytes, position]
    chunks,   \* Decoder.chunks: the chunks pushed so far
    pc,       \* where decode is: "read_signature", "first_chunk", "loop", "returned", "panicked"
    result,   \* what decode returned: "none" while running, "Ok", or the DecodeError
    call,     \* history: the latest read_chunk call (offsets, length, tag, outcome)
    spans,    \* history: for every pushed chunk, the offsets it was read from
    frames    \* history: the names of the frames the input bytes were built from

vars == <<buffer, chunks, pc, result, call, spans, frames>>

(***************************************************************************)
(* Bounds of the model.                                                    *)
(***************************************************************************)
\* The input holds at most this many frames after the signature.
MaxChunks == 3

(***************************************************************************)
(* 32-bit values.                                                          *)
(***************************************************************************)
\* The u32 with the small value n (n < 65536).
U32(n) == <<0, n>>

\* The four big-endian bytes of a u32.
U32Bytes(u) == <<u[1] \div 256, u[1] % 256, u[2] \div 256, u[2] % 256>>

\* u32::from_be_bytes.
U32FromBytes(b) == <<(b[1] * 256) + b[2], (b[3] * 256) + b[4]>>

\* `length.try_into().unwrap()` to usize (never fails on a 32- or 64-bit
\* target).  Values from 2^31 on are held as 2^31 - 1: they are only ever
\* compared with, or counted against, the bytes left in the buffer.
usize(u) == IF u[1] < 32768 THEN (u[1] * 65536) + u[2] ELSE 2147483647

(***************************************************************************)
(* The 32-bit cyclic redundancy check of the chunk format (polynomial      *)
(* 0xEDB88320, reflected, initial value and final xor 0xFFFFFFFF).         *)
(***************************************************************************)
\* Bitwise exclusive or of two naturals.
Xor[a \in Nat, b \in Nat] ==
    IF a = 0 THEN b
    ELSE IF b = 0 THEN a
    ELSE (((a % 2) + (b % 2)) % 2) + 2 * Xor[a \div 2, b \div 2]

\* One bit of the division: shift right, and subtract the polynomial when
\* the bit shifted out is set.
CrcShift[c \in Nat \X Nat] ==
    LET s == <<c[1] \div 2, (c[2] \div 2) + ((c[1] % 2) * 32768)>>
    IN  IF c[2] % 2 = 1 THEN <<Xor[s[1], 60856], Xor[s[2], 33568]>> ELSE s

CrcByte[c \in Nat \X Nat, b \in Nat] ==
    CrcShift[CrcShift[CrcShift[CrcShift[
        CrcShift[CrcShift[CrcShift[CrcShift[<<c[1], Xor[c[2], b]>>]]]]]]]]

CrcUpdate[c \in Nat \X Nat, bytes \in Seq(Nat)] ==
    IF bytes = <<>> THEN c ELSE CrcUpdate[CrcByte[c, Head(bytes)], Tail(bytes)]

Crc32(bytes) ==
    LET c == CrcUpdate[<<65535, 65535>>, bytes]
    IN  <<65535 - c[1], 65535 - c[2]>>

(***************************************************************************)
(* Outcomes.  Every read returns the buffer it leaves behind together with *)
(* "ok" and a value, "err" and a DecodeError, or "panic".                  *)
(***************************************************************************)
Ok(v, buf) == [st |-> "ok", val |-> v, buf |-> buf]
Err(e, buf) == [st |-> "err", val |-> e, buf |-> buf]
Panic(buf) == [st |-> "panic", val |-> "panic", buf |-> buf]

\* `prev?` followed by `next`: next is what runs after a successful prev;
\* anything else prev returned is returned as it is.
Then(prev, next) == IF prev.st # "ok" THEN prev ELSE next

\* `r.try_into()?` for a successful read r and the conversion's answer v.
Converted(r, v) == IF v.ok THEN Ok(v.val, r.buf) ELSE Err(v.err, r.buf)

(***************************************************************************)
(* Buffer: the cursor over the input bytes.                                *)
(***************************************************************************)
Buffer_new(bytes) == [bytes |-> bytes, position |-> 0]

Remaining(buf) == Len(buf.bytes) - buf.position

\* The next n bytes, or UnexpectedEndOfInput and no advance.
read_n(buf, n) ==
    IF Remaining(buf) < n
    THEN Err("UnexpectedEndOfInput", buf)
    ELSE Ok(SubSeq(buf.bytes, buf.position + 1, buf.position + n),
            [buf EXCEPT !.position = @ + n])

read_u8(buf) ==
    LET r == read_n(buf, 1)
    IN  Then(r, Ok(r.val[1], r.buf))

read_u16(buf) ==
    LET r == read_n(buf, 2)
    IN  Then(r, Ok((r.val[1] * 256) + r.val[2], r.buf))

read_u32(buf) ==
    LET r == read_n(buf, 4)
    IN  Then(r, Ok(U32FromBytes(r.val), r.buf))

(***************************************************************************)
(* The tag registry and the enumeration validators.  decoder.rs uses the   *)
(* conversions through `try_into()?`; the names the model gives to their   *)
(* errors (UnknownChunkType, InvalidBitDepth, InvalidColorType,            *)
(* InvalidInterlaceMethod) stand for "the error of that conversion".       *)
(***************************************************************************)
TagIHDR == <<73, 72, 68, 82>>
TagIDAT == <<73, 68, 65, 84>>
TagIEND == <<73, 69, 78, 68>>
TaggAMA == <<103, 65, 77, 65>>
TagPLTE == <<80, 76, 84, 69>>
TagbKGD == <<98, 75, 71, 68>>
TagtRNS == <<116, 82, 78, 83>>

\* ChunkType: the seven variants that read_chunk matches on.
ChunkTypes == {"IHDR", "IDAT", "IEND", "gAMA", "PLTE", "bKGD", "tRNS"}

\* TryFrom<&[u8]> for ChunkType.  The match of read_chunk is exhaustive over
\* seven variants, so there is no variant for any other tag: the conversion
\* fails on it.
ChunkType_try_from(tag) ==
    CASE tag = TagIHDR -> [ok |-> TRUE, val |-> "IHDR"]
      [] tag = TagIDAT -> [ok |-> TRUE, val |-> "IDAT"]
      [] tag = TagIEND -> [ok |-> TRUE, val |-> "IEND"]
      [] tag = TaggAMA -> [ok |-> TRUE, val |-> "gAMA"]
      [] tag = TagPLTE -> [ok |-> TRUE, val |-> "PLTE"]
      [] tag = TagbKGD -> [ok |-> TRUE, val |-> "bKGD"]
      [] tag = TagtRNS -> [ok |-> TRUE, val |-> "tRNS"]
      [] OTHER -> [ok |-> FALSE, err |-> "UnknownChunkType"]

\* TryFrom<u8> for BitDepth.
BitDepth_try_from(b) ==
    IF b \in {1, 2, 4, 8, 16}
    THEN [ok |-> TRUE, val |-> b]
    ELSE [ok |-> FALSE, err |-> "InvalidBitDepth"]

\* TryFrom<u8> for ColorType: the variants _0, _2, _3, _4, _6.
ColorType_try_from(b) ==
    IF b \in {0, 2, 3, 4, 6}
    THEN [ok |-> TRUE, val |-> b]
    ELSE [ok |-> FALSE, err |-> "InvalidColorType"]

\* TryFrom<u8> for InterlaceMethod: 0 (none) or 1 (Adam7).
InterlaceMethod_try_from(b) ==
    IF b \in {0, 1}
    THEN [ok |-> TRUE, val |-> b]
    ELSE [ok |-> FALSE, err |-> "InvalidInterlaceMethod"]

(***************************************************************************)
(* Decoder: the per-chunk decoders.  The println! calls and the allocation *)
(* of Vec::with_capacity are left out: they change nothing of the Decoder. *)
(***************************************************************************)
\* The color type of the first chunk of the list; panics when the list is
\* empty (expect) or its first chunk is no IHDR (panic!).
get_color_type(chs) ==
    IF chs = <<>> THEN [st |-> "panic"]
    ELSE IF chs[1].data.kind = "IHDR"
         THEN [st |-> "ok", val |-> chs[1].data.color_type]
         ELSE [st |-> "panic"]

\* A slip in the length check: only a length above 13 is refused.
ihdr_length_ok_upper_only(length) == length[1] = 0 /\ length[2] <= 13

\* The length check of read_ihdr_chunk_data.
ihdr_length_ok(length) == length = U32(13)

\* `r?.try_into()?` into BitDepth, ColorType and InterlaceMethod.
bit_depth_of(r) == Then(r, Converted(r, BitDepth_try_from(r.val)))
color_type_of(r) == Then(r, Converted(r, ColorType_try_from(r.val)))
interlace_method_of(r) == Then(r, Converted(r, InterlaceMethod_try_from(r.val)))

read_ihdr_chunk_data(buf, length) ==
    LET width == read_u32(buf)
        height == Then(width, read_u32(width.buf))
        bit_depth == Then(height, bit_depth_of(read_u8(height.buf)))
        color_type == Then(bit_depth, color_type_of(read_u8(bit_depth.buf)))
        compression == Then(color_type, read_u8(color_type.buf))
        filter == Then(compression, read_u8(compression.buf))
        interlace_method == Then(filter, interlace_method_of(read_u8(filter.buf)))
    IN  IF ~ihdr_length_ok(length) THEN Err("InvalidIHDRLength", buf)
        ELSE Then(interlace_method,
                  Ok([kind |-> "IHDR",
                      width |-> width.val,
                      height |-> height.val,
                      bit_depth |-> bit_depth.val,
                      color_type |-> color_type.val,
                      compression_method |-> 0,
                      filter_method |-> 0,
                      interlace_method |-> interlace_method.val],
                     interlace_method.buf))

read_idat_chunk_data(buf, length) ==
    LET bytes == read_n(buf, usize(length))
    IN  Then(bytes, Ok([kind |-> "IDAT", bytes |-> bytes.val], bytes.buf))

\* image_gamma is the u32 read divided by 100000; the quotient is kept as
\* the pair of the two.
read_gama_chunk_data(buf, length) ==
    LET raw == read_u32(buf)
    IN  Then(raw, Ok([kind |-> "gAMA",
                      image_gamma |-> [num |-> raw.val, den |-> 100000]],
                     raw.buf))

\* The loop `for _ in 0..n` of read_plte_chunk_data: one (r, g, b) per round,
\* returning at the first read that fails.
RECURSIVE plte_entries(_, _, _)
plte_entries(buf, n, entries) ==
    IF n = 0 THEN Ok(entries, buf)
    ELSE LET r == read_u8(buf)
             g == Then(r, read_u8(r.buf))
             b == Then(g, read_u8(g.buf))
         IN  Then(b, plte_entries(b.buf, n - 1,
                                  Append(entries, <<r.val, g.val, b.val>>)))

\* The number of rounds of that loop.
plte_count(length) == usize(length) \div 3

read_plte_chunk_data(buf, length) ==
    LET entries == plte_entries(buf, plte_count(length), <<>>)
    IN  Then(entries, Ok([kind |-> "PLTE", entries |-> entries.val], entries.buf))

\* Three u16 reads in a row: (red, green, blue).
read_rgb16(buf) ==
    LET red == read_u16(buf)
        green == Then(red, read_u16(red.buf))
        blue == Then(green, read_u16(green.buf))
    IN  Then(blue, Ok(<<red.val, green.val, blue.val>>, blue.buf))

\* A payload variant made of a successful read.
Variant(kind, r) == Then(r, Ok([kind |-> kind, val |-> r.val], r.buf))

\* The match of read_bkgd_chunk_data on the color type.
bkgd_inner(buf, color_type) ==
    IF color_type \in {0, 4} THEN Variant("Grayscale", read_u16(buf))
    ELSE IF color_type \in {2, 6} THEN Variant("RGB", read_rgb16(buf))
    ELSE Variant("PaletteIndex", read_u8(buf))

\* ChunkData::bKGD(inner) and ChunkData::tRNS(inner) of a successful inner.
Wrapped(kind, inner) == Then(inner, Ok([kind |-> kind, inner |-> inner.val], inner.buf))

\* `match self.get_color_type()`: a panic of get_color_type unwinds.
bkgd_with(buf, ct) ==
    IF ct.st = "panic" THEN Panic(buf) ELSE Wrapped("bKGD", bkgd_inner(buf, ct.val))

read_bkgd_chunk_data(buf, length, chs) == bkgd_with(buf, get_color_type(chs))

\* The loop `for _ in 0..length` of read_trns_chunk_data.
RECURSIVE trns_indices(_, _, _)
trns_indices(buf, n, indices) ==
    IF n = 0 THEN Ok(indices, buf)
    ELSE LET index == read_u8(buf)
         IN  Then(index, trns_indices(index.buf, n - 1, Append(indices, index.val)))

\* The color types for which read_trns_chunk_data refuses the chunk.
trns_refused(color_type) == color_type \in {4, 6}

\* The match of read_trns_chunk_data on the color type.
trns_inner(buf, length, color_type) ==
    IF trns_refused(color_type) THEN Err("UnexpectedtRNSChunk", buf)
    ELSE IF color_type = 0 THEN Variant("Graysample", read_u16(buf))
    ELSE IF color_type = 2 THEN Variant("RGB", read_rgb16(buf))
    ELSE Variant("PaletteIndices", trns_indices(buf, usize(length), <<>>))

trns_with(buf, length, ct) ==
    IF ct.st = "panic" THEN Panic(buf)
    ELSE Wrapped("tRNS", trns_inner(buf, length, ct.val))

read_trns_chunk_data(buf, length, chs) == trns_with(buf, length, get_color_type(chs))

(***************************************************************************)
(* Decoder: the signature and the chunk reader.                            *)
(***************************************************************************)
PNG_SIGNATURE == <<137, 80, 78, 71, 13, 10, 26, 10>>

\* A slip in the comparison: only the first four bytes are compared.
signature_matches_first_four(items) == SubSeq(items, 1, 4) = SubSeq(PNG_SIGNATURE, 1, 4)

\* The comparison of read_signature.
signature_matches(items) == items = PNG_SIGNATURE

read_signature(buf) ==
    LET items == read_n(buf, 8)
    IN  Then(items, IF signature_matches(items.val) THEN Ok("unit", items.buf)
                    ELSE Err("MissingSignature", items.buf))

\* The match of read_chunk on the chunk type.
chunk_data(buf, ty, length, chs) ==
    CASE ty = "IHDR" -> read_ihdr_chunk_data(buf, length)
      [] ty = "IDAT" -> read_idat_chunk_data(buf, length)
      [] ty = "IEND" -> Ok([kind |-> "IEND"], buf)
      [] ty = "gAMA" -> read_gama_chunk_data(buf, length)
      [] ty = "PLTE" -> read_plte_chunk_data(buf, length)
      [] ty = "bKGD" -> read_bkgd_chunk_data(buf, length, chs)
      [] ty = "tRNS" -> read_trns_chunk_data(buf, length, chs)

\* `r?.try_into()?` into ChunkType.
chunk_type_of(r) == Then(r, Converted(r, ChunkType_try_from(r.val)))

\* A slip in the push: the new chunk takes the place of the list.
pushed_alone(chs, length, ty, data, crc) ==
    <<[length |-> length, ty |-> ty, data |-> data, crc |-> crc]>>

\* The chunk list after self.chunks.push(Chunk { length, ty, data, crc }).
pushed(chs, length, ty, data, crc) ==
    Append(chs, [length |-> length, ty |-> ty, data |-> data, crc |-> crc])

\* A slip in read_chunk: the checksum is not read; the chunk is pushed with
\* a zero crc.
read_chunk_without_crc(buf, chs) ==
    LET length == read_u32(buf)
        ty == Then(length, chunk_type_of(read_n(length.buf, 4)))
        data == Then(ty, chunk_data(ty.buf, ty.val, length.val, chs))
    IN  Then(data, Ok(pushed(chs, length.val, ty.val, data.val, U32(0)), data.buf))

\* read_chunk: on success the value is the chunk list with the new chunk
\* pushed; otherwise the value is the error and nothing was pushed.
read_chunk(buf, chs) ==
    LET length == read_u32(buf)
        ty == Then(length, chunk_type_of(read_n(length.buf, 4)))
        data == Then(ty, chunk_data(ty.buf, ty.val, length.val, chs))
        crc == Then(data, read_u32(data.buf))
    IN  Then(crc, Ok(pushed(chs, length.val, ty.val, data.val, crc.val), crc.buf))

\* A slip in the loop test: an IEND that is the only chunk of the list does
\* not end the loop.
while_cond_after_first(chs) ==
    IF chs = <<>> THEN "panic"
    ELSE IF chs[Len(chs)].ty # "IEND" \/ Len(chs) < 2 THEN "continue"
    ELSE "exit"

\* The test of the while loop of decode: chunks.last().unwrap().ty != IEND.
while_cond(chs) ==
    IF chs = <<>> THEN "panic"
    ELSE IF chs[Len(chs)].ty # "IEND" THEN "continue"
    ELSE "exit"

\* How a run of decode ended: how (st, val), with which chunk list and with
\* the cursor where.
Outcome(st, val, chs, buf) ==
    [st |-> st, val |-> val, chunks |-> chs, position |-> buf.position]

\* decode as a function of the input, lines 26-39: decode_after(r, chs) is
\* the rest of decode after a call r == self.read_chunk()? found the chunk
\* list chs; decode_loop(buf, chs) is the while loop and what follows it.
RECURSIVE decode_loop(_, _)
decode_after(r, chs) ==
    IF r.st = "ok" THEN decode_loop(r.buf, r.val)
    ELSE Outcome(r.st, r.val, chs, r.buf)

decode_loop(buf, chs) ==
    CASE while_cond(chs) = "continue" -> decode_after(read_chunk(buf, chs), chs)
      [] while_cond(chs) = "exit" -> Outcome("ok", "Ok", chs, buf)
      [] while_cond(chs) = "panic" -> Outcome("panic", "panic", chs, buf)

\* decode, lines 25-26, after r == self.read_signature()?
decode_from(r) ==
    IF r.st = "ok" THEN decode_after(read_chunk(r.buf, <<>>), <<>>)
    ELSE Outcome(r.st, r.val, <<>>, r.buf)

\* Decoder::new(bytes).decode()
decode(bytes) == decode_from(read_signature(Buffer_new(bytes)))

(***************************************************************************)
(* The inputs.  An input is a signature (or a damaged one) followed by up  *)
(* to MaxChunks frames; a frame is a chunk as the format lays it out       *)
(* (length, tag, payload, checksum) or a damaged one.                      *)
(***************************************************************************)
\* A chunk with the declared length, the tag, the payload and the checksum
\* of tag and payload.
Chunk(length, tag, payload) ==
    U32Bytes(U32(length)) \o tag \o payload \o U32Bytes(Crc32(tag \o payload))

\* The 13 bytes of an ImageHeader payload.
IhdrPayload(width, height, depth, color, compression, filter, interlace) ==
    <<0, 0, 0, width, 0, 0, 0, height, depth, color, compression, filter, interlace>>

TagtEXt == <<116, 69, 88, 116>>

SignatureTable ==
    [good |-> PNG_SIGNATURE,
     bad |-> <<137, 80, 78, 71, 13, 10, 26, 11>>,
     short |-> <<137, 80, 78, 71>>]

FrameTable ==
    [IHDR_c0 |-> Chunk(13, TagIHDR, IhdrPayload(1, 1, 8, 0, 0, 0, 0)),
     IHDR_c2 |-> Chunk(13, TagIHDR, IhdrPayload(1, 1, 8, 2, 0, 0, 0)),
     IHDR_c3 |-> Chunk(13, TagIHDR, IhdrPayload(1, 1, 8, 3, 0, 0, 0)),
     IHDR_c4 |-> Chunk(13, TagIHDR, IhdrPayload(1, 1, 8, 4, 0, 0, 1)),
     IHDR_c6 |-> Chunk(13, TagIHDR, IhdrPayload(1, 1, 8, 6, 0, 0, 0)),
     IHDR_len12 |-> Chunk(12, TagIHDR, <<0, 0, 0, 1, 0, 0, 0, 1, 8, 0, 0, 0>>),
     IHDR_len0 |-> Chunk(0, TagIHDR, <<>>),
     IHDR_w0 |-> Chunk(13, TagIHDR, IhdrPayload(0, 1, 8, 0, 0, 0, 0)),
     IHDR_comp1 |-> Chunk(13, TagIHDR, IhdrPayload(1, 1, 8, 0, 1, 0, 0)),
     IHDR_c2_d4 |-> Chunk(13, TagIHDR, IhdrPayload(1, 1, 4, 2, 0, 0, 0)),
     IHDR_d3 |-> Chunk(13, TagIHDR, IhdrPayload(1, 1, 3, 0, 0, 0, 0)),
     IDAT |-> Chunk(2, TagIDAT, <<120, 156>>),
     IDAT_badcrc |-> U32Bytes(U32(2)) \o TagIDAT \o <<120, 156>> \o <<0, 0, 0, 0>>,
     IDAT_cut |-> U32Bytes(U32(4)) \o TagIDAT \o <<120>>,
     half |-> <<0, 0>>,
     IEND |-> Chunk(0, TagIEND, <<>>),
     IEND_len5 |-> Chunk(5, TagIEND, <<>>),
     gAMA |-> Chunk(4, TaggAMA, <<0, 0, 177, 143>>),
     gAMA_len8 |-> Chunk(8, TaggAMA, <<0, 0, 177, 143, 0, 0, 0, 0>>),
     PLTE9 |-> Chunk(9, TagPLTE, <<1, 2, 3, 4, 5, 6, 7, 8, 9>>),
     PLTE10 |-> Chunk(10, TagPLTE, <<1, 2, 3, 4, 5, 6, 7, 8, 9, 10>>),
     PLTE0 |-> Chunk(0, TagPLTE, <<>>),
     bKGD1 |-> Chunk(1, TagbKGD, <<1>>),
     bKGD2 |-> Chunk(2, TagbKGD, <<0, 7>>),
     bKGD6 |-> Chunk(6, TagbKGD, <<0, 1, 0, 2, 0, 3>>),
     tRNS2 |-> Chunk(2, TagtRNS, <<0, 5>>),
     tRNS6 |-> Chunk(6, TagtRNS, <<0, 1, 0, 2, 0, 3>>),
     tEXt |-> Chunk(2, TagtEXt, <<65, 0>>)]

SignatureNames == DOMAIN SignatureTable
FrameNames == DOMAIN FrameTable

\* The sequences of at most n frame names.
FrameSeqs(n) == UNION {[1..k -> FrameNames] : k \in 0..n}

RECURSIVE Concat(_)
Concat(fs) == IF fs = <<>> THEN <<>> ELSE FrameTable[Head(fs)] \o Concat(Tail(fs))

\* The bytes of the input built from a signature name and frame names.
InputBytes(sig, fs) == SignatureTable[sig] \o Concat(fs)

(***************************************************************************)
(* The state machine of Decoder::decode.                                   *)
(***************************************************************************)
NoCall == [start |-> 0, length |-> "none", ty |-> "none", data_at |-> 0,
           st |-> "none", val |-> "none"]

\* Decoder::new on each input.
Init ==
    \E sig \in SignatureNames, fs \in FrameSeqs(MaxChunks) :
        /\ frames = [sig |-> sig, fs |-> fs]
        /\ buffer = Buffer_new(InputBytes(sig, fs))
        /\ chunks = <<>>
        /\ pc = "read_signature"
        /\ result = "none"
        /\ call = NoCall
        /\ spans = <<>>

\* A slip in decode: the first read_chunk call (line 26) is left out and the
\* loop test comes right after the signature.
AfterSignature_into_loop(r) ==
    /\ buffer' = r.buf
    /\ pc' = IF r.st = "ok" THEN "loop" ELSE "returned"
    /\ result' = IF r.st = "ok" THEN result ELSE r.val
    /\ UNCHANGED <<chunks, call, spans, frames>>

\* The state after a call r == self.read_signature()? at line 25.
AfterSignature(r) ==
    /\ buffer' = r.buf
    /\ pc' = IF r.st = "ok" THEN "first_chunk" ELSE "returned"
    /\ result' = IF r.st = "ok" THEN result ELSE r.val
    /\ UNCHANGED <<chunks, call, spans, frames>>

\* decode, line 25: self.read_signature()?
ReadSignature ==
    /\ pc = "read_signature"
    /\ AfterSignature(read_signature(buffer))

\* What a call of read_chunk looked at: where it started, the length and the
\* tag it read (if it got that far), where the payload starts, and how it
\* ended (r).
CallRecordOf(buf, length, tag, ty, r) ==
    [start |-> buf.position,
     length |-> IF length.st = "ok" THEN length.val ELSE "none",
     ty |-> IF tag.st # "ok" THEN "none"
            ELSE IF ty.st = "ok" THEN ty.val ELSE "unknown",
     data_at |-> IF tag.st = "ok" THEN tag.buf.position ELSE buf.position,
     st |-> r.st,
     val |-> IF r.st = "ok" THEN "unit" ELSE r.val]

CallRecordTag(buf, length, tag, r) ==
    CallRecordOf(buf, length, tag, chunk_type_of(tag), r)

CallRecordLength(buf, length, r) ==
    CallRecordTag(buf, length,
                  IF length.st = "ok" THEN read_n(length.buf, 4) ELSE length, r)

CallRecord(buf, r) == CallRecordLength(buf, read_u32(buf), r)

\* The state after a call r == self.read_chunk()? made by decode.
AfterReadChunk(r, c) ==
    /\ buffer' = r.buf
    /\ chunks' = IF r.st = "ok" THEN r.val ELSE chunks
    /\ pc' = CASE r.st = "ok" -> "loop"
               [] r.st = "err" -> "returned"
               [] r.st = "panic" -> "panicked"
    /\ result' = IF r.st = "err" THEN r.val ELSE result
    /\ call' = c
    /\ spans' = IF r.st = "ok"
                THEN Append(spans, [start |-> c.start, data_at |-> c.data_at,
                                    end |-> r.buf.position])
                ELSE spans
    /\ UNCHANGED frames

CallReadChunkWith(r) == AfterReadChunk(r, CallRecord(buffer, r))

\* One call self.read_chunk()? made by decode.
CallReadChunk == CallReadChunkWith(read_chunk(buffer, chunks))

\* decode, line 26: the first self.read_chunk()?
FirstChunk ==
    /\ pc = "first_chunk"
    /\ CallReadChunk

\* decode, lines 31-33: the loop test holds, self.read_chunk()?
LoopChunk ==
    /\ pc = "loop"
    /\ while_cond(chunks) = "continue"
    /\ CallReadChunk

\* decode, lines 31 and 35-39: the loop test fails (or its unwrap panics);
\* the chunks are printed and Ok(()) is returned.
Return ==
    /\ pc = "loop"
    /\ while_cond(chunks) # "continue"
    /\ pc' = IF while_cond(chunks) = "exit" THEN "returned" ELSE "panicked"
    /\ result' = IF while_cond(chunks) = "exit" THEN "Ok" ELSE result
    /\ UNCHANGED <<buffer, chunks, call, spans, frames>>

Next ==
    \/ ReadSignature
    \/ FirstChunk
    \/ LoopChunk
    \/ Return

Spec == Init /\ [][Next]_vars

(***************************************************************************)
(* Notions the properties below are stated with.                           *)
(***************************************************************************)
Returned == pc = "returned"
Succeeded == pc = "returned" /\ result = "Ok"
Finished == pc \in {"returned", "panicked"}

\* The chunk list as the latest read_chunk call found it.
ChunksBeforeCall ==
    IF call.st = "ok" THEN SubSeq(chunks, 1, Len(chunks) - 1) ELSE chunks

\* The number of bytes after the tag read by the latest read_chunk call.
BytesAfterTag == Len(buffer.bytes) - call.data_at

\* The latest read_chunk call read a length and one of the seven tags.
CallRead(ty) == call.ty = ty /\ call.length # "none"

\* The header frames of a well-formed input and the color model of each.
HeaderColor ==
    [IHDR_c0 |-> 0, IHDR_c2 |-> 2, IHDR_c3 |-> 3, IHDR_c4 |-> 4, IHDR_c6 |-> 6]

\* Frame `name` is a correctly framed, legal chunk after a header of the
\* color model `color` and the frames `before`.
LegalFrame(name, color, before) ==
    \/ name \in {"IDAT", "gAMA", "tEXt"}
    \/ name = "PLTE9" /\ color \in {2, 3, 6}
    \/ name = "bKGD2" /\ color \in {0, 4}
    \/ name = "bKGD6" /\ color \in {2, 6}
    \/ name = "bKGD1" /\ color = 3 /\ \E i \in DOMAIN before : before[i] = "PLTE9"
    \/ name = "tRNS2" /\ color = 0
    \/ name = "tRNS6" /\ color = 2

\* The input is well-formed: the signature, a header, legal correctly framed
\* chunks, and the zero-length trailer as the last chunk.
WellFormed(f) ==
    /\ f.sig = "good"
    /\ Len(f.fs) >= 2
    /\ f.fs[1] \in DOMAIN HeaderColor
    /\ f.fs[Len(f.fs)] = "IEND"
    /\ \A i \in 2..(Len(f.fs) - 1) :
          LegalFrame(f.fs[i], HeaderColor[f.fs[1]], SubSeq(f.fs, 1, i - 1))

\* The offset in the input at which frame i starts.
FrameStart(f, i) == Len(InputBytes(f.sig, SubSeq(f.fs, 1, i - 1)))

(***************************************************************************)
(* C1.  An input of at least 8 bytes whose first 8 bytes are not the       *)
(* signature makes decode return MissingSignature, whatever follows; no    *)
(* chunk header has been read by then: the chunk list is empty, no         *)
(* read_chunk call was made and the cursor stands right after the 8 bytes. *)
(***************************************************************************)
C1_MissingSignature ==
    (/\ Len(buffer.bytes) >= 8
     /\ SubSeq(buffer.bytes, 1, 8) # PNG_SIGNATURE
     /\ pc # "read_signature")
    => (/\ pc = "returned"
        /\ result = "MissingSignature"
        /\ chunks = <<>>
        /\ call = NoCall
        /\ buffer.position = 8)

\* decode returned MissingSignature on an input that goes on after its
\* damaged signature.
C1_Witness ==
    /\ pc = "returned"
    /\ result = "MissingSignature"
    /\ Len(buffer.bytes) > 8
    /\ frames.sig = "bad"
    /\ Len(frames.fs) >= 2

(***************************************************************************)
(* C2.  On every well-formed input decode returns Ok and the chunk list    *)
(* holds one chunk per chunk of the input, in file order, an ImageHeader   *)
(* first and an ImageTrailer last.                                         *)
(***************************************************************************)
C2_WellFormedDecodes ==
    (WellFormed(frames) /\ Finished)
    => (/\ result = "Ok"
        /\ Len(chunks) = Len(frames.fs)
        /\ chunks[1].ty = "IHDR"
        /\ chunks[Len(chunks)].ty = "IEND"
        /\ \A i \in DOMAIN chunks : spans[i].start = FrameStart(frames, i))

(***************************************************************************)
(* C3.  decode never panics: it ends by returning; and a Background or     *)
(* Transparency chunk read when the first chunk of the list is no          *)
(* ImageHeader (or the list is empty) makes it return MissingHeaderState.  *)
(***************************************************************************)
C3_NeverPanics ==
    /\ pc # "panicked"
    /\ ((/\ CallRead("bKGD") \/ CallRead("tRNS")
         /\ \/ ChunksBeforeCall = <<>>
            \/ ChunksBeforeCall[1].ty # "IHDR")
        => (Returned /\ result = "MissingHeaderState"))

(***************************************************************************)
(* C4.  A chunk (of a type other than ImageHeader, whose length C5 speaks  *)
(* of) whose declared length exceeds the bytes that remain after its tag   *)
(* makes decode fail with UnexpectedEndOfInput.                            *)
(***************************************************************************)
C4_LengthBeyondInput ==
    (/\ call.ty \in ChunkTypes \ {"IHDR"}
     /\ usize(call.length) > BytesAfterTag)
    => (/\ call.st = "err"
        /\ call.val = "UnexpectedEndOfInput"
        /\ Returned
        /\ result = "UnexpectedEndOfInput")

(***************************************************************************)
(* C5.  An ImageHeader chunk whose declared length is not 13 makes decode  *)
(* return InvalidIHDRLength, and nothing after the tag has been read: the  *)
(* cursor stands where the payload would start.                            *)
(***************************************************************************)
C5_HeaderLength ==
    (CallRead("IHDR") /\ call.length # U32(13))
    => (/\ call.st = "err"
        /\ call.val = "InvalidIHDRLength"
        /\ Returned
        /\ result = "InvalidIHDRLength"
        /\ buffer.position = call.data_at
        /\ chunks = ChunksBeforeCall)

\* An ImageHeader chunk of declared length 12, with bytes after its tag,
\* was refused.
C5_Witness ==
    /\ CallRead("IHDR")
    /\ call.length = U32(12)
    /\ BytesAfterTag > 13
    /\ result = "InvalidIHDRLength"

(***************************************************************************)
(* C6.  decode never succeeds with a chunk list that lacks an ImageHeader  *)
(* at index 1 or holds one at a later index.                               *)
(***************************************************************************)
C6_HeaderFirstAndOnce ==
    Succeeded
    => (/\ chunks # <<>>
        /\ chunks[1].ty = "IHDR"
        /\ \A i \in 2..Len(chunks) : chunks[i].ty # "IHDR")

(***************************************************************************)
(* C7.  A Palette chunk whose declared length is 0 or no multiple of 3     *)
(* makes decode fail with InvalidPaletteLength; one whose declared length  *)
(* is a positive multiple of 3 and that is read successfully holds         *)
(* length / 3 entries, the triples of its payload bytes in file order.     *)
(***************************************************************************)
\* The bytes of the input from offset `from` (exclusive) to offset `to`.
InputSlice(from, to) == SubSeq(buffer.bytes, from + 1, to)

PaletteLengthLegal(length) == length # U32(0) /\ usize(length) % 3 = 0

C7_PaletteLength ==
    CallRead("PLTE")
    => IF PaletteLengthLegal(call.length)
       THEN call.st = "ok"
            => LET entries == chunks[Len(chunks)].data.entries
               IN  /\ Len(entries) = usize(call.length) \div 3
                   /\ \A i \in DOMAIN entries :
                         entries[i] = InputSlice(call.data_at + 3 * (i - 1),
                                                 call.data_at + 3 * i)
       ELSE /\ call.st = "err"
            /\ call.val = "InvalidPaletteLength"
            /\ Returned
            /\ result = "InvalidPaletteLength"

(***************************************************************************)
(* C8.  A Transparency chunk read after an ImageHeader whose color model   *)
(* is GrayscaleAlpha (4) or TruecolorAlpha (6) makes decode fail with      *)
(* UnexpectedtRNSChunk.  (Stated for chunk lists in which every            *)
(* ImageHeader read so far has such a color model.)                        *)
(***************************************************************************)
\* The color types of the ImageHeader chunks in a chunk list.
HeaderColorsIn(chs) ==
    {chs[i].data.color_type : i \in {j \in DOMAIN chs : chs[j].ty = "IHDR"}}

C8_TransparencyAfterAlpha ==
    (/\ CallRead("tRNS")
     /\ HeaderColorsIn(ChunksBeforeCall) # {}
     /\ HeaderColorsIn(ChunksBeforeCall) \subseteq {4, 6})
    => (/\ call.st = "err"
        /\ call.val = "UnexpectedtRNSChunk"
        /\ Returned
        /\ result = "UnexpectedtRNSChunk")

(***************************************************************************)
(* C9.  The payload of a Background or Transparency chunk is shaped by the *)
(* color model of the ImageHeader read before it: one 2-byte sample for    *)
(* Grayscale (0) and GrayscaleAlpha (4), three 2-byte samples for          *)
(* Truecolor (2) and TruecolorAlpha (6), and for Indexed (3) one index     *)
(* byte (Background) or `length` index bytes (Transparency).  (Stated for  *)
(* chunk lists whose ImageHeaders all have the same color model, and, for  *)
(* Transparency, the color models 0, 2 and 3 that allow it: the read does  *)
(* not panic, and when it succeeds the variant and the number of payload   *)
(* bytes read are the ones named.)                                         *)
(***************************************************************************)
\* The payload bytes consumed by the latest read_chunk call, which succeeded.
PayloadBytesRead == (buffer.position - 4) - call.data_at

BackgroundShape(color) ==
    CASE color \in {0, 4} -> [kind |-> "Grayscale", bytes |-> 2]
      [] color \in {2, 6} -> [kind |-> "RGB", bytes |-> 6]
      [] color = 3 -> [kind |-> "PaletteIndex", bytes |-> 1]

TransparencyShape(color, length) ==
    CASE color = 0 -> [kind |-> "Graysample", bytes |-> 2]
      [] color = 2 -> [kind |-> "RGB", bytes |-> 6]
      [] color = 3 -> [kind |-> "PaletteIndices", bytes |-> usize(length)]

ShapeIs(shape) ==
    /\ call.st # "panic"
    /\ call.st = "ok"
       => /\ chunks[Len(chunks)].data.inner.kind = shape.kind
          /\ PayloadBytesRead = shape.bytes

C9_PayloadShape ==
    \A color \in {0, 2, 3, 4, 6} :
        HeaderColorsIn(ChunksBeforeCall) = {color}
        => /\ CallRead("bKGD") => ShapeIs(BackgroundShape(color))
           /\ (CallRead("tRNS") /\ color \in {0, 2, 3})
              => ShapeIs(TransparencyShape(color, call.length))

(***************************************************************************)
(* C10.  No chunk is in the chunk list whose stored checksum differs from  *)
(* the CRC recomputed over its tag bytes and the payload bytes read for    *)
(* it: a disagreement makes decode fail with ChecksumMismatch and the      *)
(* chunk is not appended.                                                  *)
(***************************************************************************)
\* The CRC over the tag and the payload bytes read for chunk i.
RecomputedCrc(i) == Crc32(InputSlice(spans[i].data_at - 4, spans[i].end - 4))

C10_ChecksumVerified ==
    \A i \in DOMAIN chunks : chunks[i].crc = RecomputedCrc(i)

(***************************************************************************)
(* C11.  A chunk whose tag is none of the seven known types, and whose     *)
(* declared length and checksum fit in the input, is read successfully:    *)
(* read_chunk consumes `length` payload bytes and the checksum, appends    *)
(* one chunk to the list, and decode goes on to the next chunk.            *)
(***************************************************************************)
C11_UnknownRetained ==
    (/\ call.ty = "unknown"
     /\ usize(call.length) <= BytesAfterTag - 4)
    => (/\ call.st = "ok"
        /\ pc = "loop"
        /\ Len(chunks) = Len(ChunksBeforeCall) + 1
        /\ buffer.position = (call.data_at + usize(call.length)) + 4)

(***************************************************************************)
(* C12.  On every input made of the signature, zero or more complete legal *)
(* chunks none of which is an ImageTrailer, and then nothing more or the   *)
(* beginning of one more chunk, decode returns UnexpectedEndOfInput.       *)
(***************************************************************************)
\* The frames that are the beginning of a chunk and no more.
CutFrames == {"IDAT_cut", "half"}

\* A header and legal correctly framed chunks after it, or no chunk at all.
CompleteChunks(fs) ==
    \/ fs = <<>>
    \/ /\ fs[1] \in DOMAIN HeaderColor
       /\ \A i \in 2..Len(fs) :
             LegalFrame(fs[i], HeaderColor[fs[1]], SubSeq(fs, 1, i - 1))

\* The input ends, at a chunk boundary or inside a chunk, before any
\* ImageTrailer.
EndsWithoutTrailer(f) ==
    /\ f.sig = "good"
    /\ \/ CompleteChunks(f.fs)
       \/ /\ f.fs # <<>>
          /\ f.fs[Len(f.fs)] \in CutFrames
          /\ CompleteChunks(SubSeq(f.fs, 1, Len(f.fs) - 1))

C12_EndsWithoutTrailer ==
    (EndsWithoutTrailer(frames) /\ Finished)
    => (Returned /\ result = "UnexpectedEndOfInput")

(***************************************************************************)
(* C13.  Every ImageHeader chunk in the chunk list has a width and a       *)
(* height above 0, was read from a payload whose compression-method byte   *)
(* and filter-method byte are both 0, and has a bit depth that is legal    *)
(* for its color model.                                                    *)
(***************************************************************************)
\* The bit depths the format allows for a color type.
LegalBitDepths(color_type) ==
    CASE color_type = 0 -> {1, 2, 4, 8, 16}
      [] color_type = 3 -> {1, 2, 4, 8}
      [] color_type \in {2, 4, 6} -> {8, 16}

\* The byte of the input at offset k of the payload of chunk i.
PayloadByte(i, k) == buffer.bytes[(spans[i].data_at + k) + 1]

C13_HeaderInvariant ==
    \A i \in DOMAIN chunks :
        chunks[i].ty = "IHDR"
        => /\ chunks[i].data.width # U32(0)
           /\ chunks[i].data.height # U32(0)
           /\ PayloadByte(i, 10) = 0
           /\ PayloadByte(i, 11) = 0
           /\ chunks[i].data.bit_depth \in LegalBitDepths(chunks[i].data.color_type)

(***************************************************************************)
(* C14.  A Gamma chunk whose declared length is not 4 makes decode fail    *)
(* with InvalidGammaLength; one whose declared length is 4 and that is     *)
(* read successfully holds the big-endian value of its 4 payload bytes,    *)
(* and exactly those 4 bytes were read as its payload.                     *)
(***************************************************************************)
C14_GammaLength ==
    CallRead("gAMA")
    => IF call.length = U32(4)
       THEN call.st = "ok"
            => /\ PayloadBytesRead = 4
               /\ chunks[Len(chunks)].data.image_gamma.num
                      = U32FromBytes(InputSlice(call.data_at, call.data_at + 4))
       ELSE /\ call.st = "err"
            /\ call.val = "InvalidGammaLength"
            /\ Returned
            /\ result = "InvalidGammaLength"

(***************************************************************************)
(* C15.  Under the Indexed color model (the ImageHeader is the first chunk *)
(* and every ImageHeader read has color type 3), a Background or           *)
(* Transparency chunk whose payload and checksum fit in the input makes    *)
(* decode fail with MissingPaletteState when no Palette chunk was read     *)
(* before it, and otherwise is read successfully only if every palette     *)
(* index in it is below the number of entries of the Palette chunk read    *)
(* before it.                                                              *)
(***************************************************************************)
\* The positions of the Palette chunks in a chunk list.
PaletteChunksIn(chs) == {i \in DOMAIN chs : chs[i].ty = "PLTE"}

\* The largest element of a non-empty set of numbers.
Latest(S) == CHOOSE i \in S : \A j \in S : j <= i

\* The palette indices held by a Background or Transparency payload read
\* under the Indexed color model.
PaletteIndicesOf(data) ==
    IF data.inner.kind = "PaletteIndex" THEN {data.inner.val}
    ELSE {data.inner.val[k] : k \in DOMAIN data.inner.val}

IndicesWithin(chs, data) ==
    \A index \in PaletteIndicesOf(data) :
        index < Len(chs[Latest(PaletteChunksIn(chs))].data.entries)

C15_PaletteIndex ==
    (/\ CallRead("bKGD") \/ CallRead("tRNS")
     /\ usize(call.length) <= BytesAfterTag - 4
     /\ ChunksBeforeCall # <<>>
     /\ ChunksBeforeCall[1].ty = "IHDR"
     /\ HeaderColorsIn(ChunksBeforeCall) = {3})
    => IF PaletteChunksIn(ChunksBeforeCall) = {}
       THEN /\ call.st = "err"
            /\ call.val = "MissingPaletteState"
            /\ Returned
            /\ result = "MissingPaletteState"
       ELSE call.st = "ok"
            => IndicesWithin(ChunksBeforeCall, chunks[Len(chunks)].data)

(***************************************************************************)
(* C16.  Every successful read_chunk advances the cursor by exactly        *)
(* 4 + 4 + length + 4 bytes: the payload bytes read are `length` many and  *)
(* the checksum is read right after them.                                  *)
(***************************************************************************)
C16_ExactAdvance ==
    call.st = "ok"
    => /\ call.data_at = call.start + 8
       /\ PayloadBytesRead = usize(call.length)
       /\ buffer.position = (call.start + 12) + usize(call.length)

(***************************************************************************)
(* C17.  When decode succeeds, the last chunk of the list is the first     *)
(* ImageTrailer read, the cursor stands right after the checksum read for  *)
(* it (12 bytes after its start) and not further, and decode gives the     *)
(* same outcome and the same chunk list on the input cut at that offset    *)
(* and on that prefix followed by any other bytes.                         *)
(***************************************************************************)
\* Bytes to put after the prefix of an input.
Tails ==
    {<<>>, <<255>>, FrameTable["IEND"], FrameTable["tEXt"],
     FrameTable["IDAT"] \o FrameTable["half"]}

\* The input up to the cursor.
InputRead == SubSeq(buffer.bytes, 1, buffer.position)

C17_StopsAtTrailer ==
    Succeeded
    => /\ chunks # <<>>
       /\ chunks[Len(chunks)].ty = "IEND"
       /\ \A i \in 1..(Len(chunks) - 1) : chunks[i].ty # "IEND"
       /\ call.st = "ok"
       /\ buffer.position = spans[Len(spans)].end
       /\ buffer.position = spans[Len(spans)].start + 12
       /\ decode(buffer.bytes) = Outcome("ok", "Ok", chunks, buffer)
       /\ \A tail \in Tails :
             decode(InputRead \o tail) = Outcome("ok", "Ok", chunks, buffer)

\* decode succeeded on an input that goes on after the ImageTrailer chunk
\* it stopped at.
C17_Witness ==
    /\ Succeeded
    /\ Len(chunks) >= 2
    /\ buffer.position < Len(buffer.bytes)

(***************************************************************************)
(* C18.  The chunk list is append-only and changes only when a read_chunk  *)
(* call succeeds: that step appends exactly one chunk and leaves the       *)
(* chunks before it as they were; every other step (a read_chunk or        *)
(* read_signature that fails, a read_signature that succeeds, the exit of  *)
(* the loop) leaves the chunk list unchanged.                              *)
(***************************************************************************)
\* The step is a call self.read_chunk()? that returned Ok.
ReadChunkSucceeds == pc \in {"first_chunk", "loop"} /\ pc' = "loop"

C18_AppendOnly ==
    [][IF ReadChunkSucceeds
       THEN /\ Len(chunks') = Len(chunks) + 1
            /\ SubSeq(chunks', 1, Len(chunks)) = chunks
            /\ call'.st = "ok"
       ELSE chunks' = chunks]_vars

\* Two chunks were appended and the read_chunk call after them failed.
C18_Witness ==
    /\ Len(chunks) >= 2
    /\ chunks[1] # chunks[2]
    /\ call.st = "err"
    /\ Returned

(***************************************************************************)
(* C19.  decode terminates on every input: every step of it that makes a   *)
(* read_chunk call either ends decode or appends a chunk with the cursor   *)
(* at least 12 bytes further; the cursor never moves back and never        *)
(* passes the end of the input; every chunk of the list took at least 12   *)
(* bytes; so the loop makes at most (input length - 8) / 12 iterations.    *)
(* And decode ends: while it has not ended the guard of one of its steps   *)
(* holds, every step lowers a measure that is never negative (the bytes    *)
(* left after the cursor, plus one while decode runs), and decode taken as *)
(* a function of the input has an outcome on every input, the one the      *)
(* steps arrive at.                                                        *)
(***************************************************************************)
\* The number of iterations of the while loop made so far: the read_chunk
\* calls after the first one (a call that failed with a non-empty list was
\* made by the loop).
LoopIterations ==
    IF chunks = <<>> THEN 0
    ELSE (Len(chunks) - 1) + (IF call.st \in {"err", "panic"} THEN 1 ELSE 0)

\* The measure that every step of decode lowers.
StepsLeft == Remaining(buffer) + (IF Finished THEN 0 ELSE 1)

\* The guard of ReadSignature, FirstChunk, LoopChunk or Return holds.
CanStep ==
    \/ pc = "read_signature"
    \/ pc = "first_chunk"
    \/ pc = "loop" /\ while_cond(chunks) = "continue"
    \/ pc = "loop" /\ while_cond(chunks) # "continue"

\* How decode has ended in this state.
EndedAs ==
    Outcome(CASE pc = "panicked" -> "panic"
              [] pc = "returned" /\ result = "Ok" -> "ok"
              [] pc = "returned" /\ result # "Ok" -> "err",
            IF pc = "panicked" THEN "panic" ELSE result,
            chunks, buffer)

C19_CursorWithin ==
    /\ buffer.position >= 0
    /\ buffer.position <= Len(buffer.bytes)
    /\ Len(spans) = Len(chunks)
    /\ \A i \in DOMAIN spans : spans[i].end - spans[i].start >= 12
    /\ LoopIterations = 0 \/ LoopIterations * 12 <= Len(buffer.bytes) - 8
    /\ StepsLeft >= 0
    /\ ~Finished => CanStep
    /\ pc = "read_signature" => decode(buffer.bytes).st \in {"ok", "err", "panic"}
    /\ Finished => decode(buffer.bytes) = EndedAs

C19_StepAdvances ==
    /\ buffer'.position >= buffer.position
    /\ StepsLeft' < StepsLeft
    /\ pc \in {"first_chunk", "loop"}
       => \/ pc' \in {"returned", "panicked"}
          \/ /\ Len(chunks') = Len(chunks) + 1
             /\ buffer'.position >= buffer.position + 12

TrailersIn(chs) == {i \in DOMAIN chs : chs[i].ty = "IEND"}

C20_TrailerOnlyLast ==
    /\ TrailersIn(chunks) \subseteq {Len(chunks)}
    /\ pc = "loop" => while_cond(chunks) # "panic"
    /\ Succeeded
       => /\ chunks # <<>>
          /\ TrailersIn(chunks) = {Len(chunks)}

\* An ImageTrailer was just appended after other chunks and the loop test
\* is about to see it.
C20_Witness ==
    /\ pc = "loop"
    /\ Len(chunks) >= 3
    /\ chunks[Len(chunks)].ty = "IEND"

====
